---------------------------- MODULE Spec2Model ----------------------------
(***************************************************************************)
(* A model of generate_calendar.py: the ESPN schedule scraper              *)
(* (scrape_espn_schedule, parse_espn_date, parse_time), the calendar       *)
(* builder (create_ical_calendar) and the orchestrator (main).             *)
(*                                                                         *)
(* Texts.  A text is a sequence of characters, so that the substring      *)
(* tests and the regular expression of parse_time, and the joining of the  *)
(* UID, are computed on characters.  A printable ASCII character is the    *)
(* one-character string; any other character is the string "U+XXXX" of its *)
(* code point.  A date header's text is a sequence of tokens: a word (a    *)
(* run of letters, kept as its characters), a number (its value and how    *)
(* many digits it is written with) or a comma.  Tokens stand for the       *)
(* layout "Word, Word 5, 2024": one blank between a word and what follows  *)
(* it, a comma right after its token and a blank after the comma.  On      *)
(* tokens the weekday-stripping regular expression and the three strptime  *)
(* formats of parse_espn_date are computed.                                *)
(*                                                                         *)
(* Values.  Python's None is the record None.  A datetime is a record of   *)
(* its calendar fields and its tzinfo ("None" for a naive datetime).       *)
(* A call that may raise returns [exc |-> TRUE] or                         *)
(* [exc |-> FALSE, value |-> v]; a try/except is the operator that maps    *)
(* the first to the handler's result.                                      *)
(*                                                                         *)
(* Three specifications share the module:                                  *)
(*   Spec      one run of main(): fetch, scrape, build, write;             *)
(*   SpecTime  parse_time applied to a drawn time text and section date;   *)
(*   SpecDate  parse_espn_date applied to a drawn header and clock.        *)
(***************************************************************************)
EXTENDS Integers, Sequences, FiniteSets

VARIABLES
    \* ---- one run of main() ----
    pc,         \* position of the run: start, tables (the adapter's
                \* section loop), found, build, done, crashed
    fetch,      \* outcome of requests.get / raise_for_status
    page,       \* the ScheduleTables divs the adapter has gone through
    games,      \* the adapter's list `games`, then main's
    reported,   \* the number printed by "Found N games" (-1: not printed)
    events,     \* the VEVENTs added to the calendar so far
    clock,      \* the wall clock (UTC), as last read by the build
    file,       \* mlb_playoffs.ics: whether it exists, and its events
    writes,     \* how many times the file was opened and written
    next_game,  \* create_ical_calendar's position in `games`
    \* ---- parse_time on its own ----
    tpc,        \* "call" before parse_time ran, "done" after
    time_in,    \* the sample the time text was rendered from
    time_text,  \* parse_time's argument time_text
    game_date,  \* parse_time's argument game_date
    game_time,  \* parse_time's result
    \* ---- parse_espn_date on its own ----
    dpc,        \* "call" before parse_espn_date ran, "done" after
    date_in,    \* the sample the header was rendered from
    date_text,  \* parse_espn_date's argument date_text
    now_year,   \* datetime.now().year as read at line 86
    now_month,  \* datetime.now().month as read at line 90
    parsed      \* parse_espn_date's result

mainVars ==
    <<pc, fetch, page, games, reported, events, clock, file, writes,
      next_game>>
timeVars == <<tpc, time_in, time_text, game_date, game_time>>
dateVars == <<dpc, date_in, date_text, now_year, now_month, parsed>>
vars == <<mainVars, timeVars, dateVars>>

-----------------------------------------------------------------------------
(* Bounds of the model. *)

\* The most ScheduleTables divs of a page.
MaxTables == 2
\* The most rows of a page, over all its tables.
MaxRows == 2
\* The furthest the wall clock advances during one build.
MaxClock == 1
\* The largest hour written in a drawn time text.
MaxHourText == 25
\* The largest minute written in a drawn time text.
MaxMinuteText == 61
\* The most "Weekday, " prefixes of a drawn date header.
MaxDow == 2

-----------------------------------------------------------------------------
(* Values shared by the functions. *)

None == [kind |-> "None"]

datetime(y, mo, d, h, mi, tz) ==
    [kind |-> "datetime", year |-> y, month |-> mo, day |-> d,
     hour |-> h, minute |-> mi, tzinfo |-> tz]

Raise == [exc |-> TRUE]
Return(v) == [exc |-> FALSE, value |-> v]

\* The character at position i of text t, "" outside the text.
At(t, i) == IF i \in 1..Len(t) THEN t[i] ELSE ""

\* The decimal digits of Unicode (category Nd), which \d of a str pattern
\* matches and int() reads: each row holds the digits 0 to 9 of one script.
DigitRows ==
    <<<<"0", "1", "2", "3", "4", "5", "6", "7", "8", "9">>,
      <<"U+0660", "U+0661", "U+0662", "U+0663", "U+0664",
        "U+0665", "U+0666", "U+0667", "U+0668", "U+0669">>,
      <<"U+06F0", "U+06F1", "U+06F2", "U+06F3", "U+06F4",
        "U+06F5", "U+06F6", "U+06F7", "U+06F8", "U+06F9">>,
      <<"U+07C0", "U+07C1", "U+07C2", "U+07C3", "U+07C4",
        "U+07C5", "U+07C6", "U+07C7", "U+07C8", "U+07C9">>,
      <<"U+0966", "U+0967", "U+0968", "U+0969", "U+096A",
        "U+096B", "U+096C", "U+096D", "U+096E", "U+096F">>,
      <<"U+09E6", "U+09E7", "U+09E8", "U+09E9", "U+09EA",
        "U+09EB", "U+09EC", "U+09ED", "U+09EE", "U+09EF">>,
      <<"U+0A66", "U+0A67", "U+0A68", "U+0A69", "U+0A6A",
        "U+0A6B", "U+0A6C", "U+0A6D", "U+0A6E", "U+0A6F">>,
      <<"U+0AE6", "U+0AE7", "U+0AE8", "U+0AE9", "U+0AEA",
        "U+0AEB", "U+0AEC", "U+0AED", "U+0AEE", "U+0AEF">>,
      <<"U+0B66", "U+0B67", "U+0B68", "U+0B69", "U+0B6A",
        "U+0B6B", "U+0B6C", "U+0B6D", "U+0B6E", "U+0B6F">>,
      <<"U+0BE6", "U+0BE7", "U+0BE8", "U+0BE9", "U+0BEA",
        "U+0BEB", "U+0BEC", "U+0BED", "U+0BEE", "U+0BEF">>,
      <<"U+0C66", "U+0C67", "U+0C68", "U+0C69", "U+0C6A",
        "U+0C6B", "U+0C6C", "U+0C6D", "U+0C6E", "U+0C6F">>,
      <<"U+0CE6", "U+0CE7", "U+0CE8", "U+0CE9", "U+0CEA",
        "U+0CEB", "U+0CEC", "U+0CED", "U+0CEE", "U+0CEF">>,
      <<"U+0D66", "U+0D67", "U+0D68", "U+0D69", "U+0D6A",
        "U+0D6B", "U+0D6C", "U+0D6D", "U+0D6E", "U+0D6F">>,
      <<"U+0DE6", "U+0DE7", "U+0DE8", "U+0DE9", "U+0DEA",
        "U+0DEB", "U+0DEC", "U+0DED", "U+0DEE", "U+0DEF">>,
      <<"U+0E50", "U+0E51", "U+0E52", "U+0E53", "U+0E54",
        "U+0E55", "U+0E56", "U+0E57", "U+0E58", "U+0E59">>,
      <<"U+0ED0", "U+0ED1", "U+0ED2", "U+0ED3", "U+0ED4",
        "U+0ED5", "U+0ED6", "U+0ED7", "U+0ED8", "U+0ED9">>,
      <<"U+0F20", "U+0F21", "U+0F22", "U+0F23", "U+0F24",
        "U+0F25", "U+0F26", "U+0F27", "U+0F28", "U+0F29">>,
      <<"U+1040", "U+1041", "U+1042", "U+1043", "U+1044",
        "U+1045", "U+1046", "U+1047", "U+1048", "U+1049">>,
      <<"U+1090", "U+1091", "U+1092", "U+1093", "U+1094",
        "U+1095", "U+1096", "U+1097", "U+1098", "U+1099">>,
      <<"U+17E0", "U+17E1", "U+17E2", "U+17E3", "U+17E4",
        "U+17E5", "U+17E6", "U+17E7", "U+17E8", "U+17E9">>,
      <<"U+1810", "U+1811", "U+1812", "U+1813", "U+1814",
        "U+1815", "U+1816", "U+1817", "U+1818", "U+1819">>,
      <<"U+1946", "U+1947", "U+1948", "U+1949", "U+194A",
        "U+194B", "U+194C", "U+194D", "U+194E", "U+194F">>,
      <<"U+19D0", "U+19D1", "U+19D2", "U+19D3", "U+19D4",
        "U+19D5", "U+19D6", "U+19D7", "U+19D8", "U+19D9">>,
      <<"U+1A80", "U+1A81", "U+1A82", "U+1A83", "U+1A84",
        "U+1A85", "U+1A86", "U+1A87", "U+1A88", "U+1A89">>,
      <<"U+1A90", "U+1A91", "U+1A92", "U+1A93", "U+1A94",
        "U+1A95", "U+1A96", "U+1A97", "U+1A98", "U+1A99">>,
      <<"U+1B50", "U+1B51", "U+1B52", "U+1B53", "U+1B54",
        "U+1B55", "U+1B56", "U+1B57", "U+1B58", "U+1B59">>,
      <<"U+1BB0", "U+1BB1", "U+1BB2", "U+1BB3", "U+1BB4",
        "U+1BB5", "U+1BB6", "U+1BB7", "U+1BB8", "U+1BB9">>,
      <<"U+1C40", "U+1C41", "U+1C42", "U+1C43", "U+1C44",
        "U+1C45", "U+1C46", "U+1C47", "U+1C48", "U+1C49">>,
      <<"U+1C50", "U+1C51", "U+1C52", "U+1C53", "U+1C54",
        "U+1C55", "U+1C56", "U+1C57", "U+1C58", "U+1C59">>,
      <<"U+A620", "U+A621", "U+A622", "U+A623", "U+A624",
        "U+A625", "U+A626", "U+A627", "U+A628", "U+A629">>,
      <<"U+A8D0", "U+A8D1", "U+A8D2", "U+A8D3", "U+A8D4",
        "U+A8D5", "U+A8D6", "U+A8D7", "U+A8D8", "U+A8D9">>,
      <<"U+A900", "U+A901", "U+A902", "U+A903", "U+A904",
        "U+A905", "U+A906", "U+A907", "U+A908", "U+A909">>,
      <<"U+A9D0", "U+A9D1", "U+A9D2", "U+A9D3", "U+A9D4",
        "U+A9D5", "U+A9D6", "U+A9D7", "U+A9D8", "U+A9D9">>,
      <<"U+A9F0", "U+A9F1", "U+A9F2", "U+A9F3", "U+A9F4",
        "U+A9F5", "U+A9F6", "U+A9F7", "U+A9F8", "U+A9F9">>,
      <<"U+AA50", "U+AA51", "U+AA52", "U+AA53", "U+AA54",
        "U+AA55", "U+AA56", "U+AA57", "U+AA58", "U+AA59">>,
      <<"U+ABF0", "U+ABF1", "U+ABF2", "U+ABF3", "U+ABF4",
        "U+ABF5", "U+ABF6", "U+ABF7", "U+ABF8", "U+ABF9">>,
      <<"U+FF10", "U+FF11", "U+FF12", "U+FF13", "U+FF14",
        "U+FF15", "U+FF16", "U+FF17", "U+FF18", "U+FF19">>,
      <<"U+104A0", "U+104A1", "U+104A2", "U+104A3", "U+104A4",
        "U+104A5", "U+104A6", "U+104A7", "U+104A8", "U+104A9">>,
      <<"U+10D30", "U+10D31", "U+10D32", "U+10D33", "U+10D34",
        "U+10D35", "U+10D36", "U+10D37", "U+10D38", "U+10D39">>,
      <<"U+11066", "U+11067", "U+11068", "U+11069", "U+1106A",
        "U+1106B", "U+1106C", "U+1106D", "U+1106E", "U+1106F">>,
      <<"U+110F0", "U+110F1", "U+110F2", "U+110F3", "U+110F4",
        "U+110F5", "U+110F6", "U+110F7", "U+110F8", "U+110F9">>,
      <<"U+11136", "U+11137", "U+11138", "U+11139", "U+1113A",
        "U+1113B", "U+1113C", "U+1113D", "U+1113E", "U+1113F">>,
      <<"U+111D0", "U+111D1", "U+111D2", "U+111D3", "U+111D4",
        "U+111D5", "U+111D6", "U+111D7", "U+111D8", "U+111D9">>,
      <<"U+112F0", "U+112F1", "U+112F2", "U+112F3", "U+112F4",
        "U+112F5", "U+112F6", "U+112F7", "U+112F8", "U+112F9">>,
      <<"U+11450", "U+11451", "U+11452", "U+11453", "U+11454",
        "U+11455", "U+11456", "U+11457", "U+11458", "U+11459">>,
      <<"U+114D0", "U+114D1", "U+114D2", "U+114D3", "U+114D4",
        "U+114D5", "U+114D6", "U+114D7", "U+114D8", "U+114D9">>,
      <<"U+11650", "U+11651", "U+11652", "U+11653", "U+11654",
        "U+11655", "U+11656", "U+11657", "U+11658", "U+11659">>,
      <<"U+116C0", "U+116C1", "U+116C2", "U+116C3", "U+116C4",
        "U+116C5", "U+116C6", "U+116C7", "U+116C8", "U+116C9">>,
      <<"U+11730", "U+11731", "U+11732", "U+11733", "U+11734",
        "U+11735", "U+11736", "U+11737", "U+11738", "U+11739">>,
      <<"U+118E0", "U+118E1", "U+118E2", "U+118E3", "U+118E4",
        "U+118E5", "U+118E6", "U+118E7", "U+118E8", "U+118E9">>,
      <<"U+11950", "U+11951", "U+11952", "U+11953", "U+11954",
        "U+11955", "U+11956", "U+11957", "U+11958", "U+11959">>,
      <<"U+11C50", "U+11C51", "U+11C52", "U+11C53", "U+11C54",
        "U+11C55", "U+11C56", "U+11C57", "U+11C58", "U+11C59">>,
      <<"U+11D50", "U+11D51", "U+11D52", "U+11D53", "U+11D54",
        "U+11D55", "U+11D56", "U+11D57", "U+11D58", "U+11D59">>,
      <<"U+11DA0", "U+11DA1", "U+11DA2", "U+11DA3", "U+11DA4",
        "U+11DA5", "U+11DA6", "U+11DA7", "U+11DA8", "U+11DA9">>,
      <<"U+16A60", "U+16A61", "U+16A62", "U+16A63", "U+16A64",
        "U+16A65", "U+16A66", "U+16A67", "U+16A68", "U+16A69">>,
      <<"U+16AC0", "U+16AC1", "U+16AC2", "U+16AC3", "U+16AC4",
        "U+16AC5", "U+16AC6", "U+16AC7", "U+16AC8", "U+16AC9">>,
      <<"U+16B50", "U+16B51", "U+16B52", "U+16B53", "U+16B54",
        "U+16B55", "U+16B56", "U+16B57", "U+16B58", "U+16B59">>,
      <<"U+1D7CE", "U+1D7CF", "U+1D7D0", "U+1D7D1", "U+1D7D2",
        "U+1D7D3", "U+1D7D4", "U+1D7D5", "U+1D7D6", "U+1D7D7">>,
      <<"U+1D7D8", "U+1D7D9", "U+1D7DA", "U+1D7DB", "U+1D7DC",
        "U+1D7DD", "U+1D7DE", "U+1D7DF", "U+1D7E0", "U+1D7E1">>,
      <<"U+1D7E2", "U+1D7E3", "U+1D7E4", "U+1D7E5", "U+1D7E6",
        "U+1D7E7", "U+1D7E8", "U+1D7E9", "U+1D7EA", "U+1D7EB">>,
      <<"U+1D7EC", "U+1D7ED", "U+1D7EE", "U+1D7EF", "U+1D7F0",
        "U+1D7F1", "U+1D7F2", "U+1D7F3", "U+1D7F4", "U+1D7F5">>,
      <<"U+1D7F6", "U+1D7F7", "U+1D7F8", "U+1D7F9", "U+1D7FA",
        "U+1D7FB", "U+1D7FC", "U+1D7FD", "U+1D7FE", "U+1D7FF">>,
      <<"U+1E140", "U+1E141", "U+1E142", "U+1E143", "U+1E144",
        "U+1E145", "U+1E146", "U+1E147", "U+1E148", "U+1E149">>,
      <<"U+1E2F0", "U+1E2F1", "U+1E2F2", "U+1E2F3", "U+1E2F4",
        "U+1E2F5", "U+1E2F6", "U+1E2F7", "U+1E2F8", "U+1E2F9">>,
      <<"U+1E950", "U+1E951", "U+1E952", "U+1E953", "U+1E954",
        "U+1E955", "U+1E956", "U+1E957", "U+1E958", "U+1E959">>,
      <<"U+1FBF0", "U+1FBF1", "U+1FBF2", "U+1FBF3", "U+1FBF4",
        "U+1FBF5", "U+1FBF6", "U+1FBF7", "U+1FBF8", "U+1FBF9">>>>

AsciiDigits == DigitRows[1]
ArabicIndicDigits == DigitRows[2]

Digits ==
    {DigitRows[b][k] : b \in 1..Len(DigitRows), k \in 1..Len(AsciiDigits)}

\* int() of one decimal digit, of any script: its place in its row.
DigitVal(c) ==
    LET row == DigitRows[CHOOSE b \in 1..Len(DigitRows) :
                            \E k \in 1..Len(DigitRows[b]) :
                                DigitRows[b][k] = c]
    IN  (CHOOSE k \in 1..Len(row) : row[k] = c) - 1

\* The white-space characters, which \s of a str pattern matches.
WhiteSpace ==
    {"U+0009", "U+000A", "U+000B", "U+000C", "U+000D", "U+001C", "U+001D",
     "U+001E", "U+001F", " ", "U+0085", "U+00A0", "U+1680", "U+2000",
     "U+2001", "U+2002", "U+2003", "U+2004", "U+2005", "U+2006", "U+2007",
     "U+2008", "U+2009", "U+200A", "U+2028", "U+2029", "U+202F", "U+205F",
     "U+3000"}

\* The decimal numeral of a natural number, in ASCII digits.
RECURSIVE DecimalText(_)
DecimalText(n) ==
    IF n < 10
    THEN <<AsciiDigits[n + 1]>>
    ELSE DecimalText(n \div 10) \o <<AsciiDigits[(n % 10) + 1]>>

\* The numeral of a number below 100 in two digits (%m, %d, %H, %M).
TwoDigits(n) == <<AsciiDigits[(n \div 10) + 1], AsciiDigits[(n % 10) + 1]>>

\* str.lower() of an ASCII letter, and of a word.
UpperLetters ==
    <<"A", "B", "C", "D", "E", "F", "G", "H", "I", "J", "K", "L", "M",
      "N", "O", "P", "Q", "R", "S", "T", "U", "V", "W", "X", "Y", "Z">>
LowerLetters ==
    <<"a", "b", "c", "d", "e", "f", "g", "h", "i", "j", "k", "l", "m",
      "n", "o", "p", "q", "r", "s", "t", "u", "v", "w", "x", "y", "z">>

ToLower ==
    [c \in {UpperLetters[i] : i \in 1..Len(UpperLetters)} |->
        LowerLetters[CHOOSE i \in 1..Len(UpperLetters) : UpperLetters[i] = c]]
ToUpper ==
    [c \in {LowerLetters[i] : i \in 1..Len(LowerLetters)} |->
        UpperLetters[CHOOSE i \in 1..Len(LowerLetters) : LowerLetters[i] = c]]

lower_char(c) == IF c \in DOMAIN ToLower THEN ToLower[c] ELSE c
upper_char(c) == IF c \in DOMAIN ToUpper THEN ToUpper[c] ELSE c

lower(w) == [i \in 1..Len(w) |-> lower_char(w[i])]
upper(w) == [i \in 1..Len(w) |-> upper_char(w[i])]

\* `w in t` on strings: w occurs in t as a contiguous substring.
Contains(t, w) ==
    \E i \in 1..(Len(t) - Len(w) + 1) : SubSeq(t, i, i + Len(w) - 1) = w

-----------------------------------------------------------------------------
(* parse_time, lines 100-131. *)

\* \s* from position i: the position of the first character that is not
\* white space (Len(t) + 1 at the end of the text).
RECURSIVE SkipSpaces(_, _)
SkipSpaces(t, i) ==
    IF At(t, i) \in WhiteSpace THEN SkipSpaces(t, i + 1) ELSE i

\* (\d{1,2}):(\d{2})\s*(AM|PM)\s*ET anchored at position i.  \d{1,2} is
\* greedy: two digits when two digits and a colon follow, else one digit
\* when a colon follows it; no other split of the text can match.
TimeMatchAt(t, i) ==
    LET n == IF At(t, i) \in Digits /\ At(t, i + 1) \in Digits
                THEN 2
                ELSE 1
        c == i + n                      \* the colon
        k == SkipSpaces(t, c + 3)       \* AM or PM
        e == SkipSpaces(t, k + 2)       \* ET
    IN  IF /\ At(t, i) \in Digits
           /\ At(t, c) = ":"
           /\ At(t, c + 1) \in Digits
           /\ At(t, c + 2) \in Digits
           /\ At(t, k) \in {"A", "P"}
           /\ At(t, k + 1) = "M"
           /\ At(t, e) = "E"
           /\ At(t, e + 1) = "T"
        THEN [matched |-> TRUE,
              group1 |-> SubSeq(t, i, c - 1),
              group2 |-> SubSeq(t, c + 1, c + 2),
              group3 |-> SubSeq(t, k, k + 1)]
        ELSE [matched |-> FALSE]

\* The match anchored at the leftmost of the positions `hits`.
leftmost_match(t, hits) ==
    IF hits = {}
    THEN [matched |-> FALSE]
    ELSE TimeMatchAt(t, CHOOSE i \in hits : \A j \in hits : i <= j)

\* re.search: the match at the leftmost position that has one.
re_search_time(t) ==
    leftmost_match(t, {i \in 1..Len(t) : TimeMatchAt(t, i).matched})

\* int() of a non-empty string of decimal digits, of any scripts.
RECURSIVE int(_)
int(s) ==
    IF Len(s) = 1
    THEN DigitVal(s[1])
    ELSE 10 * int(SubSeq(s, 1, Len(s) - 1)) + DigitVal(s[Len(s)])

\* A plausible slip: every PM hour gets 12 added, noon included.
convert_24h_pm_always(hour, ampm) ==
    IF ampm = <<"P", "M">>
    THEN hour + 12
    ELSE IF ampm = <<"A", "M">> /\ hour = 12 THEN 0 ELSE hour

\* Lines 117-120: the 12-hour to 24-hour conversion.
convert_24h(hour, ampm) ==
    IF ampm = <<"P", "M">> /\ hour # 12
    THEN hour + 12
    ELSE IF ampm = <<"A", "M">> /\ hour = 12 THEN 0 ELSE hour

\* A plausible slip: fields out of range wrap instead of raising.
replace_hour_minute_wrapping(dt, hour, minute) ==
    Return([dt EXCEPT !.hour = hour % 24, !.minute = minute % 60])

\* datetime.replace(hour=, minute=), line 124: ValueError when the hour is
\* not in 0..23 or the minute is not in 0..59.
replace_hour_minute(dt, hour, minute) ==
    IF hour \in 0..23 /\ minute \in 0..59
    THEN Return([dt EXCEPT !.hour = hour, !.minute = minute])
    ELSE Raise

\* pytz's et_tz.localize, line 125: the naive datetime is given the zone
\* America/New_York; its calendar fields are kept.  localize looks the
\* zone's offset up at dt - 1 day and at dt + 1 day, and that datetime
\* arithmetic raises OverflowError on the first and on the last day a
\* datetime can hold.
localize(dt) ==
    IF \/ dt.year = 1 /\ dt.month = 1 /\ dt.day = 1
       \/ dt.year = 9999 /\ dt.month = 12 /\ dt.day = 31
    THEN Raise
    ELSE Return([dt EXCEPT !.tzinfo = "America/New_York"])

\* Lines 110-127, given the result time_match of re.search.
time_of_match(time_match, date) ==
    IF ~time_match.matched
    THEN Return(None)
    ELSE LET hour == convert_24h(int(time_match.group1), time_match.group3)
             minute == int(time_match.group2)
             replaced == replace_hour_minute(date, hour, minute)
         IN  IF replaced.exc
             THEN Raise
             ELSE localize(replaced.value)

\* The body of parse_time's try block, lines 103-127.
parse_time_try(text, date) ==
    IF Contains(text, <<"T", "B", "D">>) \/ Contains(text, <<"P", "P", "D">>)
    THEN Return(None)
    ELSE time_of_match(re_search_time(text), date)

\* The handler of parse_time, lines 129-131: None for every exception r of
\* the try block.
parse_time_except(r) == IF r.exc THEN Return(None) ELSE r

\* parse_time: the try block under its handler.
parse_time(text, date) == parse_time_except(parse_time_try(text, date))

-----------------------------------------------------------------------------
(* parse_espn_date, lines 74-98. *)

\* The tokens of a header text: a word of letters w, a number of value k
\* written with `digits` digits, a comma.
Word(w) == [t |-> "word", w |-> w, n |-> 0, digits |-> 0]
Num(k, digits) == [t |-> "num", w |-> <<>>, n |-> k, digits |-> digits]
Comma == [t |-> "comma", w |-> <<>>, n |-> 0, digits |-> 0]

\* calendar.month_name and calendar.day_name, which %B and %A go by.
MonthNames ==
    <<<<"J", "a", "n", "u", "a", "r", "y">>,
      <<"F", "e", "b", "r", "u", "a", "r", "y">>,
      <<"M", "a", "r", "c", "h">>,
      <<"A", "p", "r", "i", "l">>,
      <<"M", "a", "y">>,
      <<"J", "u", "n", "e">>,
      <<"J", "u", "l", "y">>,
      <<"A", "u", "g", "u", "s", "t">>,
      <<"S", "e", "p", "t", "e", "m", "b", "e", "r">>,
      <<"O", "c", "t", "o", "b", "e", "r">>,
      <<"N", "o", "v", "e", "m", "b", "e", "r">>,
      <<"D", "e", "c", "e", "m", "b", "e", "r">>>>

WeekdayNames ==
    {<<"M", "o", "n", "d", "a", "y">>,
     <<"T", "u", "e", "s", "d", "a", "y">>,
     <<"W", "e", "d", "n", "e", "s", "d", "a", "y">>,
     <<"T", "h", "u", "r", "s", "d", "a", "y">>,
     <<"F", "r", "i", "d", "a", "y">>,
     <<"S", "a", "t", "u", "r", "d", "a", "y">>,
     <<"S", "u", "n", "d", "a", "y">>}

\* The lower-cased names strptime goes by (LocaleTime's f_month and
\* f_weekday).
f_month == [m \in 1..Len(MonthNames) |-> lower(MonthNames[m])]
f_weekday == {lower(d) : d \in WeekdayNames}

\* %B and %A are matched whatever the case of the letters (strptime
\* compiles its pattern with re.IGNORECASE and looks the lower-cased word
\* up among the lower-cased names).
MonthsNamed(w) == {m \in 1..Len(f_month) : f_month[m] = w}
IsMonthName(tok) == tok.t = "word" /\ MonthsNamed(lower(tok.w)) # {}
MonthNumber(tok) == CHOOSE m \in MonthsNamed(lower(tok.w)) : TRUE
IsWeekdayName(tok) == tok.t = "word" /\ lower(tok.w) \in f_weekday

\* %d: one or two digits that make a number from 1 to 31.
IsDayNumber(tok) == tok.t = "num" /\ tok.digits \in 1..2 /\ tok.n \in 1..31

\* %Y: exactly four digits.
IsYearNumber(tok) == tok.t = "num" /\ tok.digits = 4

IsLeap(y) == (y % 4 = 0 /\ y % 100 # 0) \/ y % 400 = 0

DaysInMonth(y, m) ==
    IF m = 2 THEN (IF IsLeap(y) THEN 29 ELSE 28)
    ELSE IF m \in {4, 6, 9, 11} THEN 30 ELSE 31

\* The datetime constructor strptime ends with: ValueError for the year 0
\* and for a day the month does not have.
make_date(y, m, d) ==
    IF y \in 1..9999 /\ m \in 1..12 /\ d \in 1..DaysInMonth(y, m)
    THEN Return(datetime(y, m, d, 0, 0, "None"))
    ELSE Raise

\* [A-Za-z]+ on a whole word: every letter of it is one of A-Z and a-z.
IsAsciiWord(w) ==
    \A i \in 1..Len(w) : w[i] \in DOMAIN ToLower \/ w[i] \in DOMAIN ToUpper

\* re.sub(r'^[A-Za-z]+,\s*', '', date_text), line 78: one leading word of
\* the letters A-Z and a-z that a comma follows is removed with the comma.
strip_weekday(toks) ==
    IF /\ Len(toks) >= 2
       /\ toks[1].t = "word" /\ IsAsciiWord(toks[1].w)
       /\ toks[2].t = "comma"
    THEN SubSeq(toks, 3, Len(toks))
    ELSE toks

\* datetime.strptime(date_text, fmt), line 83, for the three formats of
\* line 81.  The whole text must match the format; a field the format
\* lacks takes strptime's default (year 1900).
strptime(toks, fmt) ==
    CASE fmt = "%B %d, %Y" ->
           IF /\ Len(toks) = 4
              /\ IsMonthName(toks[1])
              /\ IsDayNumber(toks[2])
              /\ toks[3].t = "comma"
              /\ IsYearNumber(toks[4])
           THEN make_date(toks[4].n, MonthNumber(toks[1]), toks[2].n)
           ELSE Raise
      [] fmt = "%A, %B %d" ->
           IF /\ Len(toks) = 4
              /\ IsWeekdayName(toks[1])
              /\ toks[2].t = "comma"
              /\ IsMonthName(toks[3])
              /\ IsDayNumber(toks[4])
           THEN make_date(1900, MonthNumber(toks[3]), toks[4].n)
           ELSE Raise
      [] fmt = "%B %d" ->
           IF /\ Len(toks) = 2
              /\ IsMonthName(toks[1])
              /\ IsDayNumber(toks[2])
           THEN make_date(1900, MonthNumber(toks[1]), toks[2].n)
           ELSE Raise

\* datetime.replace(year=), lines 89 and 91: ValueError when the year is
\* not in 1..9999 or the day does not exist in that year.
replace_year(dt, y) ==
    IF y \in 1..9999 /\ dt.day <= DaysInMonth(y, dt.month)
    THEN Return([dt EXCEPT !.year = y])
    ELSE Raise

\* The rule "October or later: the current year, else the next year; and
\* one more year for a month before October seen from October or later".
infer_year_next_before_october(dt, current_year, current_month) ==
    LET base == IF current_month >= 10 THEN current_year ELSE current_year + 1
    IN  IF dt.month < 10 /\ current_month >= 10
        THEN replace_year(dt, base + 1)
        ELSE replace_year(dt, base)

\* Lines 86-91: the year of a header that has none.  current_year is
\* datetime.now().year of line 86, current_month datetime.now().month of
\* line 90.
infer_year(dt, current_year, current_month) ==
    LET first == replace_year(dt, current_year)
    IN  IF first.exc
        THEN Raise
        ELSE IF first.value.month < 10 /\ current_month >= 10
             THEN replace_year(first.value, current_year + 1)
             ELSE first

\* The formats of line 81, in the order they are tried.
DateFormats == <<"%B %d, %Y", "%A, %B %d", "%B %d">>

\* One pass of the loop body, lines 82-94: Raise is the ValueError that
\* makes the loop go on to the next format.
try_format(toks, fmt, current_year, current_month) ==
    LET p == strptime(toks, fmt)
    IN  IF p.exc
        THEN Raise
        ELSE IF fmt = "%B %d" \/ fmt = "%A, %B %d"
             THEN infer_year(p.value, current_year, current_month)
             ELSE p

\* parse_espn_date: the first format that parses decides; None when none
\* does.
parse_espn_date(text, current_year, current_month) ==
    LET toks == strip_weekday(text)
        ok == {i \in 1..Len(DateFormats) :
                 ~try_format(toks, DateFormats[i], current_year,
                             current_month).exc}
    IN  IF ok = {}
        THEN None
        ELSE try_format(toks,
                        DateFormats[CHOOSE i \in ok : \A j \in ok : i <= j],
                        current_year, current_month).value

-----------------------------------------------------------------------------
(* The texts the specifications draw. *)

\* A number below 100 in the digits of a script: two digits when padded or
\* 10 or more.
Decimal(k, padded, script) ==
    IF padded \/ k >= 10
    THEN <<script[(k \div 10) + 1], script[(k % 10) + 1]>>
    ELSE <<script[k + 1]>>

\* The characters of the fixed fragments of a time text.
Chars(s) ==
    CASE s = "" -> <<>>
      [] s = " " -> <<" ">>
      [] s = "tab" -> <<"U+0009">>
      [] s = "nbsp newline" -> <<"U+00A0", "U+000A">>
      [] s = "1" -> <<"1">>
      [] s = "AM" -> <<"A", "M">>
      [] s = "PM" -> <<"P", "M">>
      [] s = "pm" -> <<"p", "m">>
      [] s = "ET" -> <<"E", "T">>
      [] s = "CT" -> <<"C", "T">>
      [] s = "TBD " -> <<"T", "B", "D", " ">>
      [] s = "LIVE " -> <<"L", "I", "V", "E", " ">>
      [] s = " PPD" -> <<" ", "P", "P", "D">>

\* A time sample: pre, then (when clock) h:mm, sp, ap, sp, zone, then
\* post; the digits of h and mm are those of a script.
TimeSample(pre, isclock, h, m, pad, script, sp, ap, zone, post) ==
    [pre |-> pre, clock |-> isclock, h |-> h, m |-> m, pad |-> pad,
     script |-> script, sp |-> sp, ap |-> ap, zone |-> zone, post |-> post]

RenderTime(s) ==
    Chars(s.pre)
    \o (IF s.clock
        THEN Decimal(s.h, s.pad, s.script) \o <<":">>
             \o Decimal(s.m, TRUE, s.script)
             \o Chars(s.sp) \o Chars(s.ap) \o Chars(s.sp) \o Chars(s.zone)
        ELSE <<>>)
    \o Chars(s.post)

\* "h:mm AM ET" and "h:mm PM ET" for every hour and minute in the bounds.
PlainTimeSamples ==
    {TimeSample("", TRUE, h, m, FALSE, AsciiDigits, " ", ap, "ET", "") :
        h \in 0..MaxHourText, m \in 0..MaxMinuteText, ap \in {"AM", "PM"}}

\* A few clock times in every other layout (other digits, other white
\* space or none), and texts with no clock time.
OddTimeSamples ==
    {TimeSample(pre, isclock, hm[1], hm[2], pad, script, sp, ap, zone, post) :
        pre \in {"", "TBD ", "1", "LIVE "}, isclock \in BOOLEAN,
        hm \in {<<7, 8>>, <<12, 0>>, <<13, 5>>}, pad \in BOOLEAN,
        script \in {AsciiDigits, ArabicIndicDigits},
        sp \in {"", " ", "tab", "nbsp newline"},
        ap \in {"AM", "PM", "pm"}, zone \in {"ET", "CT"},
        post \in {"", " PPD"}}

TimeSamples == PlainTimeSamples \cup OddTimeSamples

\* Section dates handed to parse_time.
GameDates ==
    {datetime(2024, 10, 4, 0, 0, "None"), datetime(2025, 3, 9, 0, 0, "None"),
     datetime(9999, 12, 31, 0, 0, "None")}

Saturday == <<"S", "a", "t", "u", "r", "d", "a", "y">>
Smarch == <<"S", "m", "a", "r", "c", "h">>

\* The word with the long s (U+017F) for each of its letters S and s.
long_s(w) ==
    [i \in 1..Len(w) |-> IF w[i] \in {"S", "s"} THEN "U+017F" ELSE w[i]]

\* The letters of a word as a header sample writes them.
Cased(w, casing) ==
    CASE casing = "lower" -> lower(w)
      [] casing = "upper" -> upper(w)
      [] casing = "long s" -> long_s(w)
      [] OTHER -> w

\* How many digits a number is written with, without leading zeros.
NaturalDigits(k) == Len(DecimalText(k))

\* A header sample: dow "Saturday, " prefixes, a month word (month 0: a
\* word that is no month), a day, and a year (0: none), its words in the
\* sample's casing.
RenderDate(s) ==
    [i \in 1..(2 * s.dow) |->
        IF i % 2 = 1 THEN Word(Cased(Saturday, s.casing)) ELSE Comma]
    \o <<Word(Cased(IF s.month = 0 THEN Smarch ELSE MonthNames[s.month],
                    s.casing)),
         Num(s.day, NaturalDigits(s.day))>>
    \o (IF s.year = 0
        THEN <<>>
        ELSE <<Comma, Num(s.year, NaturalDigits(s.year))>>)

DateSamples ==
    [dow : 0..MaxDow, month : 0..12, day : {1, 28, 29, 30, 31, 32},
     year : {0, 24, 2023, 2024},
     casing : {"title", "lower", "upper", "long s"}]

-----------------------------------------------------------------------------
(* SpecTime: parse_time applied to a drawn text and date. *)

MainIdle ==
    /\ pc = "idle" /\ fetch = "none" /\ page = <<>> /\ games = <<>>
    /\ reported = -1 /\ events = <<>> /\ clock = 0
    /\ file = [exists |-> FALSE, events |-> <<>>] /\ writes = 0
    /\ next_game = 0

TimeIdle ==
    /\ tpc = "idle" /\ time_in = None /\ time_text = <<>>
    /\ game_date = None /\ game_time = None

DateIdle ==
    /\ dpc = "idle" /\ date_in = None /\ date_text = <<>>
    /\ now_year = 0 /\ now_month = 0 /\ parsed = None

InitTime ==
    /\ MainIdle /\ DateIdle
    /\ tpc = "call"
    /\ time_in \in TimeSamples
    /\ time_text = RenderTime(time_in)
    /\ game_date \in GameDates
    /\ game_time = None

CallParseTime ==
    /\ tpc = "call"
    /\ LET r == parse_time(time_text, game_date)
       IN  /\ game_time' = (IF r.exc THEN None ELSE r.value)
           /\ tpc' = (IF r.exc THEN "raised" ELSE "done")
    /\ UNCHANGED <<time_in, time_text, game_date, mainVars, dateVars>>

NextTime == CallParseTime

SpecTime == InitTime /\ [][NextTime]_vars

-----------------------------------------------------------------------------
(* SpecDate: parse_espn_date applied to a drawn header and clock. *)

InitDate ==
    /\ MainIdle /\ TimeIdle
    /\ dpc = "call"
    /\ date_in \in DateSamples
    /\ date_text = RenderDate(date_in)
    /\ now_year \in {2024, 2027, 9999}
    /\ now_month \in 1..12
    /\ parsed = None

CallParseDate ==
    /\ dpc = "call"
    /\ parsed' = parse_espn_date(date_text, now_year, now_month)
    /\ dpc' = "done"
    /\ UNCHANGED <<date_in, date_text, now_year, now_month, mainVars,
                   timeVars>>

NextDate == CallParseDate

SpecDate == InitDate /\ [][NextDate]_vars

-----------------------------------------------------------------------------
(* scrape_espn_schedule, lines 8-72. *)

\* A row (tr.Table__TR): the texts of its span.Table__Team elements, its
\* td.date__col cell if it has one, and whether a call on the row raises.
Row(teams, has_time, text, raises) ==
    [teams |-> teams, has_time |-> has_time, time_text |-> text,
     raises |-> raises]

\* A section (div.ScheduleTables): its div.Table__Title if it has one, its
\* rows, and whether a call on the section outside the rows' try blocks
\* (lines 27-39) raises.
Table(has_title, text, rows, raises) ==
    [has_title |-> has_title, date_text |-> text, rows |-> rows,
     raises |-> raises]

\* The dict appended at lines 58-63.
Game(away, home, dt, text) ==
    [away_team |-> away, home_team |-> home, datetime |-> dt,
     date_str |-> text]

\* A plausible slip: the record is appended whether or not the time
\* resolved.
append_game_keep_unresolved(row, r, section_text) ==
    IF r.exc
    THEN Raise
    ELSE Return(<<Game(row.teams[1], row.teams[2], r.value, section_text)>>)

\* Lines 55-63, given the result r of parse_time: the record is appended
\* when the time resolved.
append_game(row, r, section_text) ==
    IF r.exc
    THEN Raise
    ELSE IF r.value # None
         THEN Return(<<Game(row.teams[1], row.teams[2], r.value,
                            section_text)>>)
         ELSE Return(<<>>)

\* The try block of one row, lines 43-63: the records it appends (none or
\* one), or Raise for an exception.
row_try(row, section_date, section_text) ==
    IF row.raises
    THEN Raise
    ELSE IF Len(row.teams) < 2
         THEN Return(<<>>)
         ELSE IF ~row.has_time
              THEN Return(<<>>)
              ELSE append_game(row, parse_time(row.time_text, section_date),
                               section_text)

\* The handler of lines 64-66: the row r failed on adds nothing, and the
\* loop goes on to the next row.
row_except(r) == IF r.exc THEN <<>> ELSE r.value

\* One pass of the row loop: the try block under its handler.
row_games(row, section_date, section_text) ==
    row_except(row_try(row, section_date, section_text))

\* A plausible slip: a row that yields no record ends the section.
RECURSIVE scan_rows_break(_, _, _)
scan_rows_break(rows, section_date, section_text) ==
    IF rows = <<>>
    THEN <<>>
    ELSE LET g == row_games(Head(rows), section_date, section_text)
         IN  IF g = <<>>
             THEN <<>>
             ELSE g \o scan_rows_break(Tail(rows), section_date,
                                       section_text)

\* The row loop of one section, lines 41-66.
RECURSIVE scan_rows(_, _, _)
scan_rows(rows, section_date, section_text) ==
    IF rows = <<>>
    THEN <<>>
    ELSE row_games(Head(rows), section_date, section_text)
         \o scan_rows(Tail(rows), section_date, section_text)

\* One pass of the section loop, lines 26-66: the records the section
\* appends, or Raise for an exception outside the rows' try blocks.
table_games(table, now) ==
    IF table.raises
    THEN Raise
    ELSE IF ~table.has_title
         THEN Return(<<>>)
         ELSE LET section_date ==
                      parse_espn_date(table.date_text, now.year, now.month)
              IN  IF section_date = None
                  THEN Return(<<>>)
                  ELSE Return(scan_rows(table.rows, section_date,
                                        table.date_text))

\* requests.get and raise_for_status, lines 16-17: an exception on a
\* network error or an HTTP error status.
fetch_page(outcome) == IF outcome # "ok" THEN Raise ELSE Return(outcome)

\* A plausible slip: the handler lets the exception go on.
scrape_except_reraise(e) == e

\* The handler of scrape_espn_schedule, lines 70-72: the exception e is
\* printed and the empty list returned, whatever the list `games` held.
scrape_except(e) == Return(<<>>)

\* One pass of the section loop under the outer try of lines 12-72: the
\* pass's records, or the handler's result when the pass raised.
section_outcome(r) ==
    IF r.exc
    THEN [handled |-> TRUE, result |-> scrape_except(r)]
    ELSE [handled |-> FALSE, result |-> r]

-----------------------------------------------------------------------------
(* create_ical_calendar, lines 133-174. *)

\* timedelta(hours=3, minutes=30), line 156.
DurationHours == 3
DurationMinutes == 30

\* datetime + timedelta of less than a day: the calendar fields carry into
\* the next day, month and year, and the tzinfo is kept; OverflowError
\* when the sum lies past the year 9999.
add_timedelta(dt, minutes) ==
    LET total == dt.hour * 60 + dt.minute + minutes
        over == total >= 24 * 60
        last == dt.day = DaysInMonth(dt.year, dt.month)
    IN  IF over /\ last /\ dt.month = 12 /\ dt.year = 9999
        THEN Raise
        ELSE Return([dt EXCEPT
               !.hour = (total \div 60) % 24,
               !.minute = total % 60,
               !.day = IF ~over THEN dt.day
                       ELSE IF last THEN 1 ELSE dt.day + 1,
               !.month = IF over /\ last
                         THEN (dt.month % 12) + 1
                         ELSE dt.month,
               !.year = IF over /\ last /\ dt.month = 12
                        THEN dt.year + 1
                        ELSE dt.year])

\* strftime('%Y%m%d%H%M'), line 166: the year as strftime writes it here,
\* without leading zeros, then month, day, hour and minute in two digits.
strftime_uid(dt) ==
    DecimalText(dt.year) \o TwoDigits(dt.month) \o TwoDigits(dt.day)
    \o TwoDigits(dt.hour) \o TwoDigits(dt.minute)

\* The UID of line 166, one string: the start, the team names and the
\* domain tag joined by "-" and "@".
make_uid(game) ==
    strftime_uid(game.datetime) \o <<"-">> \o game.away_team \o <<"-">>
    \o game.home_team
    \o <<"@", "m", "l", "b", "-", "p", "l", "a", "y", "o", "f", "f", "s">>

\* The Event of lines 146-170; stamp is datetime.now(pytz.UTC) as read at
\* line 170.  Raise is the OverflowError of line 156.
make_event(game, stamp) ==
    LET end == add_timedelta(game.datetime,
                             DurationHours * 60 + DurationMinutes)
    IN  IF end.exc
        THEN Raise
        ELSE Return(
               [summary |-> game.away_team \o <<" ", "@", " ">>
                            \o game.home_team,
                dtstart |-> game.datetime,
                dtend |-> end.value,
                description |->
                    <<"M", "L", "B", " ", "P", "l", "a", "y", "o", "f", "f",
                      " ", "G", "a", "m", "e", "U+000A">>
                    \o game.away_team \o <<" ", "a", "t", " ">>
                    \o game.home_team,
                location |-> game.home_team
                             \o <<" ", "S", "t", "a", "d", "i", "u", "m">>,
                uid |-> make_uid(game),
                dtstamp |-> stamp])

\* One pass of the loop of lines 142-172: the events it adds (a game
\* without a datetime adds none), or Raise for an exception, which nothing
\* in create_ical_calendar or main catches.
event_of(game, stamp) ==
    IF game.datetime = None
    THEN Return(<<>>)
    ELSE LET e == make_event(game, stamp)
         IN  IF e.exc THEN Raise ELSE Return(<<e.value>>)

-----------------------------------------------------------------------------
(* The pages Spec draws. *)

T708 == <<"7", ":", "0", "8", " ", "P", "M", " ", "E", "T">>
T105 == <<"1", ":", "0", "5", " ", "P", "M", " ", "E", "T">>
TTBD == <<"T", "B", "D">>
\* "7:08 PM ET PPD": a clock time under a postponement marker.
T708PPD == T708 \o <<" ", "P", "P", "D">>
\* "7:08 PM": a time text the pattern of line 108 does not match.
T708NoZone == <<"7", ":", "0", "8", " ", "P", "M">>

NYY == <<"N", "Y", "Y">>
LAD == <<"L", "A", "D">>

MainRows ==
    {Row(<<NYY>>, TRUE, T708, FALSE),
     Row(<<NYY, LAD>>, FALSE, <<>>, FALSE),
     Row(<<NYY, LAD>>, TRUE, TTBD, FALSE),
     Row(<<NYY, LAD>>, TRUE, T708PPD, FALSE),
     Row(<<NYY, LAD>>, TRUE, T708NoZone, FALSE),
     Row(<<NYY, LAD>>, TRUE, T708, FALSE),
     Row(<<NYY, LAD>>, TRUE, T105, FALSE),
     Row(<<NYY, LAD>>, TRUE, T708, TRUE)}

Friday == <<"F", "r", "i", "d", "a", "y">>
October == MonthNames[10]

\* "Friday, October 4, 2024", "SATURDAY, october 5" and "TBD".
HeaderOct4 ==
    <<Word(Friday), Comma, Word(October), Num(4, 1), Comma, Num(2024, 4)>>
HeaderOct5 ==
    <<Word(upper(Saturday)), Comma, Word(lower(October)), Num(5, 1)>>
HeaderBad == <<Word(TTBD)>>

\* has_title and date_text of a section.
MainTitles ==
    {<<FALSE, <<>>>>, <<TRUE, HeaderBad>>, <<TRUE, HeaderOct4>>,
     <<TRUE, HeaderOct5>>}


\* The sequences of exactly k rows.
RECURSIVE RowSeqs(_)
RowSeqs(k) ==
    IF k = 0
    THEN {<<>>}
    ELSE {<<r>> \o rs : r \in MainRows, rs \in RowSeqs(k - 1)}

\* The rows of the sections of a page.
RECURSIVE RowCount(_)
RowCount(tables) ==
    IF tables = <<>>
    THEN 0
    ELSE Len(Head(tables).rows) + RowCount(Tail(tables))

\* datetime.now() during the run, as parse_espn_date reads it.
RunNow == [year |-> 2024, month |-> 10]

-----------------------------------------------------------------------------
(* main, lines 176-196, and Spec. *)

\* A plausible slip: the calendar is built and written whatever was found.
games_truthy_always(gs) == TRUE

\* `if games:`, line 182.
games_truthy(gs) == gs # <<>>

Init ==
    /\ TimeIdle /\ DateIdle
    /\ pc = "start"
    /\ fetch = "none"
    /\ page = <<>>
    /\ games = <<>>
    /\ reported = -1
    /\ events = <<>>
    /\ clock = 0
    /\ file = [exists |-> FALSE, events |-> <<>>]
    /\ writes = 0
    /\ next_game = 0

\* Lines 177-178 and 12-20: main calls the adapter, which fetches the
\* page.  A failed fetch goes to the adapter's handler, whose result main
\* prints (line 180); an exception leaving the adapter would end main.
Fetch ==
    /\ pc = "start"
    /\ \E outcome \in {"ok", "network_error", "http_error"} :
          LET r == fetch_page(outcome)
              h == IF r.exc THEN scrape_except(r) ELSE r
          IN  /\ fetch' = outcome
              /\ pc' = (IF ~r.exc THEN "tables"
                        ELSE IF ~h.exc THEN "found" ELSE "crashed")
              /\ games' = (IF r.exc /\ ~h.exc THEN h.value ELSE <<>>)
              /\ reported' = (IF r.exc /\ ~h.exc THEN Len(h.value) ELSE -1)
    /\ UNCHANGED <<page, events, clock, file, writes, next_game, timeVars,
                   dateVars>>

\* What a pass of the section loop leaves: the loop goes on with the
\* pass's records appended; or the handler's list is returned and main
\* prints its length (line 180); or the exception leaves the adapter and
\* ends main.
AfterSection(o) ==
    /\ pc' = (IF o.result.exc THEN "crashed"
              ELSE IF o.handled THEN "found" ELSE "tables")
    /\ games' = (IF o.result.exc THEN games
                 ELSE IF o.handled THEN o.result.value
                      ELSE games \o o.result.value)
    /\ reported' = (IF o.handled /\ ~o.result.exc
                    THEN Len(o.result.value)
                    ELSE -1)

\* Lines 25-66: one pass of the section loop, over the next section of
\* the page (any title, any rows within the bounds; or a section on which
\* a call outside the rows' try blocks raises, before its rows are gone
\* through).  Such an exception goes to the adapter's handler, as a failed
\* fetch does: the adapter returns the handler's list, not `games`.
VisitTable ==
    /\ pc = "tables"
    /\ Len(page) < MaxTables
    /\ \E raises \in BOOLEAN :
       \E h \in (IF raises THEN {<<TRUE, HeaderOct4>>} ELSE MainTitles) :
       \E k \in 0..(IF raises THEN 0 ELSE MaxRows - RowCount(page)) :
       \E rs \in RowSeqs(k) :
          /\ page' = Append(page, Table(h[1], h[2], rs, raises))
          /\ AfterSection(section_outcome(
                 table_games(Table(h[1], h[2], rs, raises), RunNow)))
    /\ UNCHANGED <<fetch, events, clock, file, writes, next_game, timeVars,
                   dateVars>>

\* Lines 68 and 180: the page has no further section; the adapter returns
\* its list and main prints the number of games.
EndScrape ==
    /\ pc = "tables"
    /\ pc' = "found"
    /\ reported' = Len(games)
    /\ UNCHANGED <<fetch, page, games, events, clock, file, writes,
                   next_game, timeVars, dateVars>>

\* Lines 182-184 and 135-140: games were found, the calendar is created.
StartBuild ==
    /\ pc = "found"
    /\ games_truthy(games)
    /\ pc' = "build"
    /\ events' = <<>>
    /\ next_game' = 1
    /\ UNCHANGED <<fetch, page, games, reported, clock, file, writes,
                   timeVars, dateVars>>

\* Lines 142-172: one pass of the loop; the wall clock is read for the
\* event's DTSTAMP and may have advanced since it was last read.  An
\* exception in the pass ends main.
BuildEvent ==
    /\ pc = "build"
    /\ next_game <= Len(games)
    /\ \E t \in clock..(IF clock < MaxClock THEN clock + 1 ELSE clock) :
          LET r == event_of(games[next_game], t)
          IN  /\ clock' = t
              /\ events' = (IF r.exc THEN events ELSE events \o r.value)
              /\ pc' = (IF r.exc THEN "crashed" ELSE pc)
    /\ next_game' = next_game + 1
    /\ UNCHANGED <<fetch, page, games, reported, file, writes, timeVars,
                   dateVars>>

\* Lines 174 and 187-194: the calendar is returned, the file opened,
\* written in full and closed, and the run ends.
WriteFile ==
    /\ pc = "build"
    /\ next_game > Len(games)
    /\ file' = [exists |-> TRUE, events |-> events]
    /\ writes' = writes + 1
    /\ pc' = "done"
    /\ UNCHANGED <<fetch, page, games, reported, events, clock, next_game,
                   timeVars, dateVars>>

\* Lines 195-196: nothing was found; the run ends without a file.
ReportNone ==
    /\ pc = "found"
    /\ ~games_truthy(games)
    /\ pc' = "done"
    /\ UNCHANGED <<fetch, page, games, reported, events, clock, file,
                   writes, next_game, timeVars, dateVars>>

Next ==
    \/ Fetch \/ VisitTable \/ EndScrape
    \/ StartBuild \/ BuildEvent \/ WriteFile \/ ReportNone

Spec == Init /\ [][Next]_vars

-----------------------------------------------------------------------------
(* Notions the properties use. *)

\* The run is past the adapter: main holds the returned list.
Returned == pc \in {"found", "build", "done"}

\* Start a is not later than start b.  Every start of Spec lies in October
\* 2024, in one UTC offset of America/New_York, so the order of the local
\* calendar fields is the order of the instants.
StartLeq(a, b) ==
    LET ka == <<a.year, a.month * 100 + a.day, a.hour * 60 + a.minute>>
        kb == <<b.year, b.month * 100 + b.day, b.hour * 60 + b.minute>>
    IN  \/ ka[1] < kb[1]
        \/ ka[1] = kb[1] /\ ka[2] < kb[2]
        \/ ka[1] = kb[1] /\ ka[2] = kb[2] /\ ka[3] <= kb[3]

\* The identity of a game that has no source identifier.
Identity(g) == <<g.datetime, g.away_team, g.home_team>>

\* The section's header is there and is a date.
SectionDated(table) ==
    /\ ~table.raises
    /\ table.has_title
    /\ parse_espn_date(table.date_text, RunNow.year, RunNow.month) # None

\* The time text carries a TBD or PPD marker.
Marked(text) ==
    Contains(text, <<"T", "B", "D">>) \/ Contains(text, <<"P", "P", "D">>)

\* The date is one pytz can localize.
Localizable(d) ==
    /\ ~(d.year = 1 /\ d.month = 1 /\ d.day = 1)
    /\ ~(d.year = 9999 /\ d.month = 12 /\ d.day = 31)

\* The row extracts: two teams, a time cell, a time that resolves, and no
\* exception on the way.
RowExtracts(table, row) ==
    /\ ~row.raises
    /\ Len(row.teams) >= 2
    /\ row.has_time
    /\ ~Marked(row.time_text)
    /\ LET m == re_search_time(row.time_text)
       IN  /\ m.matched
           /\ convert_24h(int(m.group1), m.group3) \in 0..23
           /\ int(m.group2) \in 0..59
    /\ SectionDated(table)
    /\ Localizable(parse_espn_date(table.date_text, RunNow.year,
                                   RunNow.month))

\* How many rows of the sections have a time cell whose text carries no
\* marker and holds a clock time, under a header that is a date.
RECURSIVE ResolvableRows(_)
ResolvableRows(tables) ==
    IF tables = <<>>
    THEN 0
    ELSE LET rows == Head(tables).rows
             n == Cardinality({ri \in 1..Len(rows) :
                                 /\ rows[ri].has_time
                                 /\ ~Marked(rows[ri].time_text)
                                 /\ re_search_time(rows[ri].time_text).matched})
         IN  (IF n > 0 /\ SectionDated(Head(tables)) THEN n ELSE 0)
             + ResolvableRows(Tail(tables))

\* The positions <<section, row>> of the page's rows, in page order.
RECURSIVE RowPositions(_, _, _)
RowPositions(tables, ti, ri) ==
    IF ti > Len(tables)
    THEN <<>>
    ELSE IF ri > Len(tables[ti].rows)
         THEN RowPositions(tables, ti + 1, 1)
         ELSE <<(<<ti, ri>>)>> \o RowPositions(tables, ti, ri + 1)

ExtractingPositions ==
    LET Extracts(pos) == RowExtracts(page[pos[1]], page[pos[1]].rows[pos[2]])
    IN  SelectSeq(RowPositions(page, 1, 1), Extracts)

\* The record of the row at a position: its first two teams, its section's
\* date at its clock time in America/New_York, its section's header text.
RecordAt(pos) ==
    LET table == page[pos[1]]
        row == table.rows[pos[2]]
        d == parse_espn_date(table.date_text, RunNow.year, RunNow.month)
        m == re_search_time(row.time_text)
    IN  Game(row.teams[1], row.teams[2],
             datetime(d.year, d.month, d.day,
                      convert_24h(int(m.group1), m.group3), int(m.group2),
                      "America/New_York"),
             table.date_text)

\* No section of the page has both a title and rows.
LacksStructure == \A i \in 1..Len(page) :
    ~page[i].has_title \/ page[i].rows = <<>>

\* A call on a section raised outside the rows' try blocks.
SectionRaised == \E i \in 1..Len(page) : page[i].raises

-----------------------------------------------------------------------------
(* Properties of one run, under Spec. *)

\* C1: the list of games that reaches the calendar builder, and the
\* sequence of events it emits, are ordered by start: each entry starts no
\* later than the next one.
GamesOrderedByStart ==
    Returned =>
        /\ \A i \in 1..(Len(games) - 1) :
              StartLeq(games[i].datetime, games[i + 1].datetime)
        /\ \A i \in 1..(Len(events) - 1) :
              StartLeq(events[i].dtstart, events[i + 1].dtstart)

\* C2: no two games of the final list share an identity (start, away team,
\* home team), and no two emitted events carry the same UID.
NoSharedIdentity ==
    Returned =>
        /\ \A i, j \in 1..Len(games) :
              i # j => Identity(games[i]) # Identity(games[j])
        /\ \A i, j \in 1..Len(events) :
              i # j => events[i].uid # events[j].uid

\* C3: a failed fetch, a page without the expected structure, or an
\* exception raised on a section, makes the adapter return the empty list;
\* main reports zero games and can only go on to its normal end; no
\* exception ever leaves the adapter.
FailedFetchYieldsEmpty ==
    /\ pc # "crashed"
    /\ (Returned /\ (fetch # "ok" \/ LacksStructure \/ SectionRaised)) =>
          /\ games = <<>>
          /\ reported = 0
          /\ pc \in {"found", "done"}
          /\ pc = "found" => ENABLED ReportNone

FailedFetchEnds ==
    /\ pc = "done"
    /\ fetch = "http_error"
    /\ games = <<>>
    /\ reported = 0

\* C4: the file is written if and only if the adapter returned at least
\* one game: never when it returned none, and otherwise exactly once, at
\* the end, with the whole calendar built.
FileWrittenIffGames ==
    /\ writes <= 1
    /\ file.exists <=> writes = 1
    /\ writes = 1 =>
          /\ pc = "done"
          /\ next_game = Len(games) + 1
          /\ file.events = events
          /\ Len(events) = Len(games)
    /\ pc = "done" => (writes = 1 <=> Len(games) >= 1)

FileWrittenOnce ==
    /\ pc = "done"
    /\ Len(games) = 2
    /\ writes = 1
    /\ file.exists
    /\ Len(file.events) = 2

\* C6: every record of the adapter's list, and every event built from it,
\* has a resolved start; a row with a TBD or PPD marker, with a time that
\* does not parse, or under a header that is no date, contributes no
\* record: the list the adapter returns has no more records than the page
\* has rows with an unmarked clock time under a dated header.
EveryGameResolved ==
    /\ \A i \in 1..Len(games) :
          /\ games[i].datetime # None
          /\ games[i].datetime.kind = "datetime"
          /\ games[i].datetime.tzinfo = "America/New_York"
    /\ \A i \in 1..Len(events) : events[i].dtstart # None
    /\ pc = "found" => Len(games) <= ResolvableRows(page)

UnresolvedRowDropped ==
    /\ pc = "found"
    /\ ~SectionRaised
    /\ Len(page) = 1
    /\ SectionDated(page[1])
    /\ Len(page[1].rows) = 2
    /\ \A ri \in 1..2 :
          /\ Len(page[1].rows[ri].teams) = 2
          /\ page[1].rows[ri].has_time
          /\ ~page[1].rows[ri].raises
    /\ page[1].rows[1].time_text = T708PPD
    /\ page[1].rows[2].time_text = T708NoZone
    /\ games = <<>>

\* C9, as the claim states it: a row that fails extraction is skipped
\* alone, so that the list the adapter returns is exactly the records, in
\* page order, of the rows that extract.
ReturnedExactlyExtractingRows ==
    (pc = "found" /\ fetch = "ok") =>
        LET extracting == ExtractingPositions
        IN  /\ Len(games) = Len(extracting)
            /\ \A k \in 1..Len(games) : games[k] = RecordAt(extracting[k])

\* C9, amended: a row that fails extraction is skipped alone; the list the
\* adapter returns is exactly the records, in page order, of the rows that
\* extract, unless a call on a section raised outside the rows' try
\* blocks, and then it is the empty list, whatever rows extracted before.
FailedRowSkippedAlone ==
    (pc = "found" /\ fetch = "ok") =>
        IF SectionRaised
        THEN games = <<>> /\ reported = 0
        ELSE LET extracting == ExtractingPositions
             IN  /\ Len(games) = Len(extracting)
                 /\ \A k \in 1..Len(games) :
                       games[k] = RecordAt(extracting[k])

RowAfterFailedRowKept ==
    /\ pc = "found"
    /\ ~SectionRaised
    /\ Len(page) = 1
    /\ Len(page[1].rows) = 2
    /\ page[1].rows[1].raises
    /\ RowExtracts(page[1], page[1].rows[2])
    /\ Len(games) = 1

\* C7: all events of one build carry the same DTSTAMP.
SingleDtstamp ==
    \A i, j \in 1..Len(events) : events[i].dtstamp = events[j].dtstamp

-----------------------------------------------------------------------------
(* Properties of parse_time, under SpecTime. *)

\* The hour a 12-hour clock reading stands for.
Hour24(h, ap) ==
    CASE ap = "AM" /\ h = 12 -> 0
      [] ap = "PM" /\ h = 12 -> 12
      [] ap = "PM" /\ h # 12 -> h + 12
      [] OTHER -> h

\* C5: for every hour h in 1..12, every minute and both markers,
\* "h:mm AM ET" and "h:mm PM ET" resolve to hour 0 for 12 AM, 12 for 12 PM,
\* h + 12 for the other PM hours, h for the other AM hours, and to the
\* minute as written, on every section date that the zone can be attached
\* to.
TwelveHourConversion ==
    (/\ tpc \in {"done", "raised"}
     /\ time_in \in PlainTimeSamples
     /\ time_in.h \in 1..12
     /\ time_in.m \in 0..59
     /\ Localizable(game_date)) =>
        /\ tpc = "done"
        /\ game_time.kind = "datetime"
        /\ game_time.hour = Hour24(time_in.h, time_in.ap)
        /\ game_time.minute = time_in.m

SevenOhEightPM ==
    /\ tpc = "done"
    /\ time_text = T708
    /\ game_time.kind = "datetime"
    /\ game_time.hour = 19
    /\ game_time.minute = 8

\* C10: parse_time never raises; it returns no instant or an instant with
\* its hour in 0..23 and its minute in 0..59; a matched clock time whose
\* converted hour is 24 or more, or whose minute is 60 or more, gives no
\* instant.
ParseTimeRangeSafe ==
    /\ tpc # "raised"
    /\ tpc = "done" =>
          \/ game_time = None
          \/ /\ game_time.kind = "datetime"
             /\ game_time.hour \in 0..23
             /\ game_time.minute \in 0..59
    /\ (/\ tpc = "done"
        /\ time_in \in PlainTimeSamples
        /\ Hour24(time_in.h, time_in.ap) > 23 \/ time_in.m > 59) =>
          game_time = None

ThirteenPMGivesNone ==
    /\ tpc = "done"
    /\ time_in \in PlainTimeSamples
    /\ time_in.h = 13 /\ time_in.ap = "PM" /\ time_in.m = 5
    /\ game_time = None

-----------------------------------------------------------------------------
(* Properties of parse_espn_date, under SpecDate. *)

\* The header sample is a date that parses: words of the letters A-Z and
\* a-z only, at most one weekday prefix with a year, at most two without,
\* a month name in any casing, a day of the month (of 1900 when the header
\* has no year), and a year, if any, of four digits.
HeaderParses ==
    /\ \A i \in 1..Len(date_text) :
          date_text[i].t = "word" => IsAsciiWord(date_text[i].w)
    /\ date_in.month \in 1..12
    /\ date_in.year = 0 \/ NaturalDigits(date_in.year) = 4
    /\ date_in.dow <= (IF date_in.year = 0 THEN 2 ELSE 1)
    /\ date_in.day <=
          DaysInMonth(IF date_in.year = 0 THEN 1900 ELSE date_in.year,
                      date_in.month)

\* C8, as the claim states it: without a year in the header, the year is
\* the current year when the current month is 10 or later and the next
\* year otherwise, and one more when the header month is before 10 while
\* the current month is 10 or later; an explicit year is kept.
YearInferredNextBeforeOctober ==
    (dpc = "done" /\ HeaderParses) =>
        /\ parsed # None
        /\ parsed.year =
              IF date_in.year # 0
              THEN date_in.year
              ELSE (IF now_month >= 10 THEN now_year ELSE now_year + 1)
                   + (IF date_in.month < 10 /\ now_month >= 10 THEN 1 ELSE 0)

\* The year lines 86-91 give a header of the sample's month that has no
\* year.
InferredYear ==
    IF date_in.month < 10 /\ now_month >= 10 THEN now_year + 1 ELSE now_year

\* C8, amended: without a year in the header, the year is the current
\* year, whatever the current month, except that it is the next year when
\* the header month is before 10 while the current month is 10 or later
\* (and when that next year is past 9999 the header resolves to no date);
\* an explicit year is kept.
YearInferredCurrent ==
    (dpc = "done" /\ HeaderParses) =>
        IF date_in.year = 0 /\ InferredYear > 9999
        THEN parsed = None
        ELSE /\ parsed # None
             /\ parsed.month = date_in.month
             /\ parsed.day = date_in.day
             /\ parsed.year =
                   (IF date_in.year # 0 THEN date_in.year ELSE InferredYear)

OctoberSeenFromMay ==
    /\ dpc = "done"
    /\ date_in = [dow |-> 1, month |-> 10, day |-> 28, year |-> 0,
                  casing |-> "lower"]
    /\ now_month = 5
    /\ parsed # None
    /\ parsed.year = now_year

=============================================================================
